---- MODULE Spec2Model ----
(***************************************************************************)
(* A model of the three LLDB commands of axe-cli:                          *)
(*   fetch_frontmost_view  (fetch_frontmost_view.py)                       *)
(*   fetch_hierarchy       (fetch_hierarchy.py)                            *)
(*   fetch_swiftui_tree    (fetch_swiftui_tree.py)                         *)
(*                                                                         *)
(* Three specifications share the module's variables:                      *)
(*   SpecLocate  - the Objective-C loop that fetch_frontmost_view sends    *)
(*                 to the target, run on every small containment graph;    *)
(*   SpecExtract - the Swift function extractNode, applied to every small  *)
(*                 _ViewDebug.Data tree;                                   *)
(*   Spec        - a debugging session: the three command handlers, the    *)
(*                 evaluations they submit and the files they leave.       *)
(***************************************************************************)
EXTENDS Integers, Sequences, FiniteSets, TLC

VARIABLES
    \* ---- the target's view-controller graph (SpecLocate)
    g,                \* the containment graph, unchanged while a loop runs
    connectedScenes,  \* the key-window root of every connected scene
    lpc,              \* position in the expression: "idle" | "loop"
    root,             \* scene.keyWindow.rootViewController of the run
    vc, prev,         \* the loop's two locals
    descents,         \* iterations of the current run that changed vc
    addrs,            \* the address each finished run evaluated to
    \* ---- the reflective extraction (SpecExtract)
    raw,              \* what _viewDebugData() returned: a sequence of roots
    extracted,        \* whether raw has been mapped, and the NSArray built
    \* ---- the debugging session (Spec)
    env,              \* SWIFTUI_VIEW_DEBUG in the target's environment
    libLoaded,        \* DBGViewDebuggerSupport_iOS is present in the target
    nativeRan,        \* an Objective-C expression has run in this session
    fs,               \* path -> the file at that path
    pc,               \* position of the running command handler
    cmd,              \* the command being handled (or the last one handled)
    result,           \* the command's SBCommandReturnObject
    evals,            \* the evaluations the command submitted, in order
    address,          \* the handler's local of that name
    fsAtStart,        \* fs when the command began
    wrote             \* the command's write step stored its artifact

locVars == <<g, connectedScenes, lpc, root, vc, prev, descents, addrs>>
extVars == <<raw, extracted>>
sesVars == <<env, libLoaded, nativeRan, fs, pc, cmd, result, evals, address,
             fsAtStart, wrote>>
vars == <<g, connectedScenes, lpc, root, vc, prev, descents, addrs,
          raw, extracted,
          env, libLoaded, nativeRan, fs, pc, cmd, result, evals, address,
          fsAtStart, wrote>>

(***************************************************************************)
(* Bounds                                                                  *)
(***************************************************************************)
NNodes == 3        \* view controllers in the graph
MaxRuns == 2       \* successive runs of the locator on one graph
MaxScenes == 2     \* connected scenes

Nil == 0
SetMax(S) == CHOOSE x \in S : \A y \in S : y <= x
Nodes == 1..NNodes

(***************************************************************************)
(* fetch_frontmost_view.py: the expression of lines 39-64                  *)
(***************************************************************************)
\* A view controller: its class, presentedViewController, topViewController
\* (navigation controllers), selectedViewController (tab bar controllers),
\* childViewControllers in order, and whether viewIfLoaded and its window
\* are both non-nil.
\* Edges lead to higher-numbered nodes, which makes every graph acyclic up
\* to the self-references the loop tests for (top == vc, selected == vc).
NodesOf(n) ==
    LET hi == (n + 1)..NNodes
        kids == {<<>>} \cup {<<a>> : a \in hi}
                 \cup {<<p[1], p[2]>> : p \in {q \in hi \X hi : q[1] # q[2]}}
        shown == IF n = 1 THEN {TRUE} ELSE BOOLEAN
    IN  [kind : {"plain"}, presented : hi \cup {Nil}, top : {Nil},
         selected : {Nil}, children : kids, visible : shown]
        \cup [kind : {"nav"}, presented : hi \cup {Nil},
              top : hi \cup {Nil, n}, selected : {Nil}, children : kids,
              visible : shown]
        \cup [kind : {"tab"}, presented : hi \cup {Nil}, top : {Nil},
              selected : hi \cup {Nil, n}, children : kids,
              visible : shown]

RECURSIVE GraphsUpTo(_)
GraphsUpTo(n) ==
    IF n = 0 THEN {<<>>}
    ELSE {Append(f, r) : f \in GraphsUpTo(n - 1), r \in NodesOf(n)}

\* child.viewIfLoaded != nil && child.viewIfLoaded.window != nil
IsVisible(c) == g[c].visible

\* The for-in loop of lines 55-60: the first child, in order, that is
\* visible; vc itself when there is none.
FirstVisibleChild(v) ==
    LET cs == g[v].children
        hits == {i \in DOMAIN cs : IsVisible(cs[i])}
    IN  IF hits = {} THEN v
        ELSE cs[CHOOSE i \in hits : \A j \in hits : i <= j]

\* A plausible slip: rule 4 also tried when a navigation or tab bar
\* controller has no usable top / selected child.
DescendFallThrough(v) ==
    IF g[v].presented # Nil THEN g[v].presented
    ELSE IF g[v].kind = "nav" /\ g[v].top # Nil /\ g[v].top # v THEN g[v].top
    ELSE IF g[v].kind = "tab" /\ g[v].selected # Nil /\ g[v].selected # v
         THEN g[v].selected
    ELSE FirstVisibleChild(v)

\* A plausible slip: the scan of childViewControllers left out, so that a
\* plain container is never descended into.
DescendNoScan(v) ==
    IF g[v].presented # Nil THEN g[v].presented
    ELSE IF g[v].kind = "nav"
    THEN (IF g[v].top # Nil /\ g[v].top # v THEN g[v].top ELSE v)
    ELSE IF g[v].kind = "tab"
    THEN (IF g[v].selected # Nil /\ g[v].selected # v
          THEN g[v].selected ELSE v)
    ELSE v

\* One pass through the body of the while loop, lines 46-61: the value of
\* vc at the end of an iteration that began on v.
Descend(v) ==
    IF g[v].presented # Nil THEN g[v].presented
    ELSE IF g[v].kind = "nav"
    THEN (IF g[v].top # Nil /\ g[v].top # v THEN g[v].top ELSE v)
    ELSE IF g[v].kind = "tab"
    THEN (IF g[v].selected # Nil /\ g[v].selected # v
          THEN g[v].selected ELSE v)
    ELSE FirstVisibleChild(v)

\* [NSString stringWithFormat:@"%p", vc.view]: the address of the view of
\* vc; messaging nil gives nil, which %p prints as 0x0.
ViewAddress(v) == IF v = Nil THEN 0 ELSE 4096 + 16 * v

\* Lines 41-43: the scene is whichever one anyObject hands out (nil for an
\* empty set); vc is its key window's root, prev is nil.
LocateStart ==
    /\ lpc = "idle"
    /\ Len(addrs) < MaxRuns
    /\ \E r \in (IF connectedScenes = {} THEN {Nil} ELSE connectedScenes) :
          root' = r /\ vc' = r
    /\ prev' = Nil
    /\ descents' = 0
    /\ lpc' = "loop"
    /\ UNCHANGED <<g, connectedScenes, addrs, extVars, sesVars>>

\* One iteration of while (vc != prev), lines 44-62.
LocateIter ==
    /\ lpc = "loop"
    /\ vc # prev
    /\ prev' = vc
    /\ vc' = Descend(vc)
    /\ descents' = IF Descend(vc) # vc THEN descents + 1 ELSE descents
    /\ UNCHANGED <<g, connectedScenes, lpc, root, addrs, extVars, sesVars>>

\* The loop's exit and line 63: the expression's value.
LocateExit ==
    /\ lpc = "loop"
    /\ vc = prev
    /\ addrs' = Append(addrs, ViewAddress(vc))
    /\ lpc' = "idle"
    /\ UNCHANGED <<g, connectedScenes, root, vc, prev, descents, extVars,
                   sesVars>>

\* The nodes some other node refers to.
Referenced ==
    {n \in Nodes : \E m \in Nodes \ {n} :
        \/ g[m].presented = n \/ g[m].top = n \/ g[m].selected = n
        \/ \E i \in DOMAIN g[m].children : g[m].children[i] = n}

\* The session's variables, parked while another specification runs.
SessionIdle ==
    /\ env = <<>> /\ libLoaded = FALSE /\ nativeRan = FALSE /\ fs = <<>>
    /\ pc = "off" /\ cmd = <<>> /\ result = <<>> /\ evals = <<>>
    /\ address = <<>> /\ fsAtStart = <<>> /\ wrote = FALSE

LocateIdle ==
    /\ g = <<>> /\ connectedScenes = {} /\ lpc = "off" /\ root = Nil
    /\ vc = Nil
    /\ prev = Nil /\ descents = 0 /\ addrs = <<>>

NotExtracted == [done |-> FALSE, array |-> <<>>]
ExtractIdle == raw = <<>> /\ extracted = NotExtracted

\* Every graph of NNodes controllers, and every set of at most MaxScenes
\* connected scenes: none, or one whose key window is rooted at controller 1
\* and others rooted at controllers nothing else refers to (or at nothing).
InitLocate ==
    /\ g \in GraphsUpTo(NNodes)
    /\ connectedScenes \in
          {S \in SUBSET (Nodes \cup {Nil}) :
              /\ Cardinality(S) <= MaxScenes
              /\ S \cap Referenced = {}
              /\ S # {} => 1 \in S}
    /\ lpc = "idle" /\ root = Nil /\ vc = Nil /\ prev = Nil /\ descents = 0
    /\ addrs = <<>>
    /\ ExtractIdle /\ SessionIdle

NextLocate ==
    \/ LocateStart
    \/ LocateIter
    \/ LocateExit

SpecLocate == InitLocate /\ [][NextLocate]_vars

(***************************************************************************)
(* fetch_swiftui_tree.py: extractNode, lines 16-37, and its use, 100-101   *)
(***************************************************************************)
MaxTreeNodes == 3   \* nodes in one _ViewDebug.Data tree

\* Typed values, as the target holds them.
IntV(n) == [int |-> n]
StrV(t) == [str |-> t]
BoolV(b) == [bool |-> b]
IsInt(x) == DOMAIN x = {"int"}
IsStr(x) == DOMAIN x = {"str"}
IsBool(x) == DOMAIN x = {"bool"}

Digit == <<"0", "1", "2", "3", "4", "5", "6", "7", "8", "9">>

\* The decimal text of a natural number.
RECURSIVE Decimal(_)
Decimal(n) ==
    IF n < 10 THEN Digit[n + 1] ELSE Decimal(n \div 10) \o Digit[(n % 10) + 1]

\* Swift's string interpolation "\(value)".
Stringify(x) ==
    CASE IsInt(x) -> Decimal(x.int)
      [] IsBool(x) -> (IF x.bool THEN "true" ELSE "false")
      [] IsStr(x) -> x.str

\* The property mappings the model draws from: each key absent, or bound to
\* a value of its type.
PropertyValues ==
    [a |-> {IntV(1), IntV(12)}, b |-> {StrV("x")}, c |-> {BoolV(TRUE)}]

DataMaps ==
    UNION {{f \in [{StrV(k) : k \in K} -> UNION {PropertyValues[k] : k \in K}] :
               \A k \in K : f[StrV(k)] \in PropertyValues[k]} :
           K \in SUBSET {"a", "b", "c"}}

\* _ViewDebug.Data: `data`, a dictionary, and `childData`, an array of
\* _ViewDebug.Data.  A shape is a tree without its dictionaries: the
\* sequence of the shapes of its children.
RECURSIVE ShapesOfSize(_), ShapeSeqsOfSize(_)
ShapesOfSize(n) == ShapeSeqsOfSize(n - 1)
ShapeSeqsOfSize(m) ==
    IF m = 0 THEN {<<>>}
    ELSE UNION {{<<sh>> \o rest : sh \in ShapesOfSize(k),
                                  rest \in ShapeSeqsOfSize(m - k)} :
                k \in 1..m}

RECURSIVE ShapeSize(_), ShapeSeqSize(_, _)
ShapeSize(sh) == 1 + ShapeSeqSize(sh, Len(sh))
ShapeSeqSize(shs, upTo) ==
    IF upTo = 0 THEN 0
    ELSE ShapeSeqSize(shs, upTo - 1) + ShapeSize(shs[upTo])

\* The tree of shape sh whose nodes, taken parent first and children in
\* order, hold the dictionaries ds[first], ds[first + 1], ...
RECURSIVE TreeOf(_, _, _)
TreeOf(sh, ds, first) ==
    [data |-> ds[first],
     childData |-> [i \in DOMAIN sh |->
                      TreeOf(sh[i], ds, first + 1 + ShapeSeqSize(sh, i - 1))]]

\* [String: Any]() and result[key] = value.
EmptyDict == [x \in {} |-> {}]
Put(d, key, value) ==
    [x \in DOMAIN d \cup {key} |-> IF x = key THEN value ELSE d[x]]

\* Mirror(reflecting: node).children: the stored properties, in the order
\* of their declaration, each with its label.
MirrorChildren(node) ==
    <<[label |-> "data", value |-> node.data],
      [label |-> "childData", value |-> node.childData]>>

\* Lines 23-27: every entry of the dictionary is a (key, value) pair, and
\* result["\(key)"] = "\(value)" as NSString.  The order of the entries
\* is not fixed; it does not show as long as no two keys have the same
\* text, which holds of the keys drawn here.
ExtractData(res, data) ==
    LET names == {Stringify(k) : k \in DOMAIN data}
    IN  [x \in DOMAIN res \cup names |->
            IF x \in names
            THEN [s |-> Stringify(data[CHOOSE k \in DOMAIN data :
                                            Stringify(k) = x])]
            ELSE res[x]]

RECURSIVE extractNode(_)

\* A plausible slip: "children" set only for a node that has children.
ExtractFieldSkipEmpty(res, child) ==
    CASE child.label = "data" -> ExtractData(res, child.value)
      [] child.label = "childData" ->
            IF child.value = <<>> THEN res
            ELSE Put(res, "children",
                     [list |-> [i \in DOMAIN child.value |->
                                   extractNode(child.value[i])]])
      [] OTHER -> res

\* The switch of lines 21-33, on one child of the mirror.
ExtractField(res, child) ==
    CASE child.label = "data" -> ExtractData(res, child.value)
      [] child.label = "childData" ->
            Put(res, "children",
                [list |-> [i \in DOMAIN child.value |->
                              extractNode(child.value[i])]])
      [] OTHER -> res

RECURSIVE FoldFields(_, _, _)
FoldFields(res, fields, i) ==
    IF i > Len(fields) THEN res
    ELSE FoldFields(ExtractField(res, fields[i]), fields, i + 1)

\* func extractNode(_ node: _ViewDebug.Data) -> NSDictionary
extractNode(node) == FoldFields(EmptyDict, MirrorChildren(node), 1)

\* Lines 100-101: raw.map { extractNode($0) } as NSArray, in the target.
Extract ==
    /\ ~extracted.done
    /\ extracted' = [done |-> TRUE,
                     array |-> [i \in DOMAIN raw |-> extractNode(raw[i])]]
    /\ UNCHANGED <<raw, locVars, sesVars>>

InitExtract ==
    /\ \/ raw = <<>>
       \/ \E n \in 1..MaxTreeNodes :
            \E sh \in ShapesOfSize(n) :
              \E ds \in [1..n -> DataMaps] : raw = <<TreeOf(sh, ds, 1)>>
    /\ extracted = NotExtracted
    /\ LocateIdle /\ SessionIdle

NextExtract == Extract

SpecExtract == InitExtract /\ [][NextExtract]_vars

(***************************************************************************)
(* The debugging session: the three command handlers                       *)
(***************************************************************************)
\* Text is a sequence of characters; Python's None is a value of its own.
None == [none |-> TRUE]
Some(t) == [text |-> t]

\* `not x` for a str-or-None.
Falsy(x) == x = None \/ x.text = <<>>

Whitespace == {" ", "\n"}

\* str.strip()
RECURSIVE Strip(_)
Strip(t) ==
    IF t # <<>> /\ Head(t) \in Whitespace THEN Strip(Tail(t))
    ELSE IF t # <<>> /\ t[Len(t)] \in Whitespace
    THEN Strip(SubSeq(t, 1, Len(t) - 1))
    ELSE t

HexDigits ==
    {"0", "1", "2", "3", "4", "5", "6", "7", "8", "9",
     "a", "b", "c", "d", "e", "f", "A", "B", "C", "D", "E", "F"}

SetMin(S) == CHOOSE x \in S : \A y \in S : x <= y

\* re.search(r"0x[0-9a-fA-F]+", output): the leftmost match, as long as it
\* can be, or None.  (fetch_frontmost_view.py, line 70)
AddressSearch(t) ==
    LET starts == {i \in 1..(Len(t) - 2) :
                      t[i] = "0" /\ t[i + 1] = "x" /\ t[i + 2] \in HexDigits}
    IN  IF starts = {} THEN None
        ELSE LET i == SetMin(starts)
                 j == SetMax({k \in (i + 2)..Len(t) :
                                 \A m \in (i + 2)..k : t[m] \in HexDigits})
             IN  Some(SubSeq(t, i, j))

\* needle in hay, for two str.
Contains(needle, hay) ==
    \E i \in 1..(Len(hay) - Len(needle) + 1) :
        SubSeq(hay, i, i + Len(needle) - 1) = needle

Marker == <<"2", "8", "7">>
NotSetText == <<"N", "O", "T", "_", "S", "E", "T">>

\* A plausible slip: only a failed evaluation is refused.
FlagAcceptedAnyText(env_val) == env_val # None

\* The negation of the test of line 87:
\* env_val is None or "287" not in env_val.
FlagAccepted(env_val) == env_val # None /\ Contains(Marker, env_val.text)

\* No timeout is asked for: HandleCommand is given `expression -l <lang> -O --`
\* and nothing else.
NoTimeout == 0
\* SetTimeoutInMicroSeconds(60_000_000)
SwiftTimeoutMicros == 60000000

\* _run_expression up to HandleCommand: what is submitted.  The swift
\* branch differs from the other in the language alone.
RunExpressionRequest(expr, language) ==
    [expr |-> expr,
     language |-> IF language = "swift" THEN "swift" ELSE "objc",
     via |-> "HandleCommand",
     timeout |-> NoTimeout,
     ignoreBreakpoints |-> FALSE,
     status |-> "pending", output |-> <<>>]

\* _run_expression from ret.Succeeded() on: the stripped output, or None.
RunExpressionReturn(e) ==
    IF e.status = "ok" THEN Some(Strip(e.output)) ELSE None

\* A plausible slip: SetIgnoreBreakpoints(True) left out.
SwiftOptionsNoIgnore ==
    [language |-> "swift", timeout |-> SwiftTimeoutMicros,
     ignoreBreakpoints |-> FALSE]

\* A plausible slip: SetTimeoutInMicroSeconds left out.
SwiftOptionsNoTimeout ==
    [language |-> "swift", timeout |-> NoTimeout, ignoreBreakpoints |-> TRUE]

\* The SBExpressionOptions of _run_swift_expression, lines 53-56.
SwiftOptions ==
    [language |-> "swift", timeout |-> SwiftTimeoutMicros,
     ignoreBreakpoints |-> TRUE]

\* _run_swift_expression up to EvaluateExpression: what is submitted.
RunSwiftRequest(expr) ==
    [expr |-> expr,
     language |-> SwiftOptions.language,
     via |-> "EvaluateExpression",
     timeout |-> SwiftOptions.timeout,
     ignoreBreakpoints |-> SwiftOptions.ignoreBreakpoints,
     status |-> "pending", output |-> <<>>]

\* _run_swift_expression from val.GetError() on:
\* val.GetObjectDescription() or val.GetValue(), or None.  A Swift String
\* has a description and no value.
RunSwiftReturn(e) ==
    IF e.status = "ok"
    THEN (IF e.output # <<>> THEN Some(e.output) ELSE None)
    ELSE None

\* ---- the target's side of an evaluation --------------------------------
\* How an evaluation can fail.  It can time out only if a timeout was asked
\* for; a Swift evaluation submitted without breakpoints ignored can stop
\* on EXC_BREAKPOINT once an Objective-C expression has run in the session
\* (the docstring of _run_swift_expression).
Failures(req) ==
    {"failed"}
      \cup (IF req.timeout > 0 THEN {"timeout"} ELSE {})
      \cup (IF req.language = "swift" /\ ~req.ignoreBreakpoints /\ nativeRan
            THEN {"exc_breakpoint"} ELSE {})

Returned(req, status, output) ==
    [req EXCEPT !.status = status, !.output = output]

\* What the debugger prints for the locate expression when it succeeds.
LocateOutputs ==
    {<<"0", "x", "1", "0", "1", "a", "\n">>,
     <<"0", "x", "0", "\n">>,
     <<"<", "0", "x", "1", "f", ">", "\n">>,
     <<"n", "i", "l", "\n">>,
     <<"\n">>}

\* What it prints for (void *)dlopen(...): a handle, or the null pointer.
NullHandle == <<"0", "x", "0", "0", "\n">>
DlopenOutputs == {<<"0", "x", "7", "f", "\n">>, NullHandle}

\* What it prints for a (BOOL) expression.
Yes == <<"Y", "E", "S", "\n">>
No == <<"N", "O", "\n">>

Quoted(t) == <<"\"">> \o t \o <<"\"">>

\* The description of
\* ProcessInfo.processInfo.environment["SWIFTUI_VIEW_DEBUG"] ?? "NOT_SET":
\* the string, with or without quotation marks around it.
EnvCheckOutputs ==
    LET v == IF env.set THEN env.value ELSE NotSetText
    IN  {v, Quoted(v)}

\* The description of the JSON string the extraction ends in; the last
\* stands for a description that is no JSON text.
ExtractOutputs ==
    {<<"[", "]">>, <<"[", "{", "}", "]">>, <<>>, <<"[", "{", "]">>}

\* json.loads accepts the text: here, brackets that pair up.
RECURSIVE Pairs(_, _)
Pairs(t, open) ==
    IF t = <<>> THEN open = <<>>
    ELSE IF Head(t) \in {"[", "{"} THEN Pairs(Tail(t), <<Head(t)>> \o open)
    ELSE IF Head(t) = "]"
    THEN open # <<>> /\ Head(open) = "[" /\ Pairs(Tail(t), Tail(open))
    ELSE IF Head(t) = "}"
    THEN open # <<>> /\ Head(open) = "{" /\ Pairs(Tail(t), Tail(open))
    ELSE FALSE
JsonLoads(t) == t # <<>> /\ Pairs(t, <<>>)

\* ---- files ---------------------------------------------------------------
Paths == {"/tmp/out"}
Absent == [absent |-> TRUE]
Earlier == [earlier |-> TRUE]     \* a file some earlier tool left there
AddressFile(a) == [address |-> a]
BplistFile == [bplist |-> TRUE]
JsonFile(t) == [json |-> t]

\* ---- the SBCommandReturnObject ------------------------------------------
Clear == [error |-> "", message |-> ""]
SetError(text) == [error |-> text, message |-> ""]
AppendMessage(text) == [error |-> "", message |-> text]

\* A command line: the command's name and its words.
Commands ==
    [name : {"fetch_frontmost_view", "fetch_hierarchy"},
     args : {<<>>} \cup {<<p>> : p \in Paths}]
    \cup [name : {"fetch_swiftui_tree"},
          args : {<<>>, <<"0x101a">>} \cup {<<"0x101a", p>> : p \in Paths}]

OutputPath ==
    IF cmd.name = "fetch_swiftui_tree" THEN cmd.args[2] ELSE cmd.args[1]

\* The handler returns.
Finish(res) ==
    /\ result' = res
    /\ pc' = "idle"

\* The start of a handler: its arguments are checked and, unless that
\* ends it, its first evaluation is submitted.
\* fetch_frontmost_view_command, lines 34-65
\* fetch_hierarchy_command, lines 34-43
\* fetch_swiftui_tree_command, lines 69-86
Invoke ==
    /\ pc = "idle"
    /\ \E c \in Commands :
        /\ cmd' = c
        /\ fsAtStart' = fs
        /\ wrote' = FALSE
        /\ address' = IF c.name = "fetch_swiftui_tree" /\ Len(c.args) >= 2
                      THEN Some(<<"0", "x", "1", "0", "1", "a">>) ELSE None
        /\ IF c.name = "fetch_frontmost_view"
           THEN IF c.args = <<>>
                THEN /\ Finish(SetError("Usage: fetch_frontmost_view <output_path>"))
                     /\ evals' = <<>>
                     /\ UNCHANGED nativeRan
                ELSE /\ evals' = <<RunExpressionRequest("locate", "objc")>>
                     /\ nativeRan' = TRUE
                     /\ result' = Clear
                     /\ pc' = "fv_locate"
           ELSE IF c.name = "fetch_hierarchy"
           THEN IF c.args = <<>>
                THEN /\ Finish(SetError("Usage: fetch_hierarchy <output_path>"))
                     /\ evals' = <<>>
                     /\ UNCHANGED nativeRan
                ELSE /\ evals' = <<RunExpressionRequest("dlopen", "objc")>>
                     /\ nativeRan' = TRUE
                     /\ result' = Clear
                     /\ pc' = "fh_dlopen"
           ELSE IF Len(c.args) < 2
                THEN /\ Finish(SetError("Usage: fetch_swiftui_tree <address> <output_path>"))
                     /\ evals' = <<>>
                     /\ UNCHANGED nativeRan
                ELSE /\ evals' = <<RunSwiftRequest("env_check")>>
                     /\ result' = Clear
                     /\ pc' = "st_env"
                     /\ UNCHANGED nativeRan
    /\ UNCHANGED <<env, libLoaded, fs,
                   locVars, extVars>>

\* The evaluation that was submitted last.
Pending == evals[Len(evals)]

\* The evaluation returns e to the handler.
Answer(e) == [evals EXCEPT ![Len(evals)] = e]

\* The evaluation returns e, and the handler submits req.
AnswerAndSubmit(e, req) == Append(Answer(e), req)

\* fetch_frontmost_view_command, lines 65-80: the locate expression
\* returns; the address is parsed out of it and the write is submitted.
FrontmostLocated ==
    /\ pc = "fv_locate"
    /\ \E e \in {Returned(Pending, st, <<>>) : st \in Failures(Pending)}
             \cup {Returned(Pending, "ok", o) : o \in LocateOutputs} :
        LET output == RunExpressionReturn(e)
            m == IF Falsy(output) THEN None ELSE AddressSearch(output.text)
        IN  IF Falsy(output)
            THEN /\ Finish(SetError("Failed to find frontmost view controller's view"))
                 /\ evals' = Answer(e)
                 /\ UNCHANGED address
            ELSE IF m = None
            THEN /\ Finish(SetError("Could not parse address from: {output}"))
                 /\ evals' = Answer(e)
                 /\ UNCHANGED address
            ELSE /\ address' = m
                 /\ evals' = AnswerAndSubmit(
                                 e, RunExpressionRequest("write_address", "objc"))
                 /\ pc' = "fv_write"
                 /\ UNCHANGED result
    /\ UNCHANGED <<env, libLoaded, nativeRan, fs, cmd, fsAtStart, wrote,
                   locVars, extVars>>

\* fetch_frontmost_view_command, lines 80-82: the write expression returns,
\* what it returned is dropped, and the message is appended.
FrontmostWritten ==
    /\ pc = "fv_write"
    /\ \E e \in {Returned(Pending, st, <<>>) : st \in Failures(Pending)}
             \cup {Returned(Pending, "ok", o) : o \in {Yes, No}} :
        /\ evals' = Answer(e)
        /\ IF e.status = "ok" /\ e.output = Yes
           THEN /\ fs' = [fs EXCEPT ![OutputPath] = AddressFile(address.text)]
                /\ wrote' = TRUE
           ELSE UNCHANGED <<fs, wrote>>
        /\ Finish(AppendMessage("Frontmost view: {address} (saved to {output_path})"))
    /\ UNCHANGED <<env, libLoaded, nativeRan, cmd, address, fsAtStart,
                   locVars, extVars>>

\* fetch_hierarchy_command, lines 40-53: the dlopen expression returns;
\* unless it returned None the capture-and-write expression is submitted.
HierarchyLoaded ==
    /\ pc = "fh_dlopen"
    /\ \E e \in {Returned(Pending, st, <<>>) : st \in Failures(Pending)}
             \cup {Returned(Pending, "ok", o) : o \in DlopenOutputs} :
        LET dlopen_result == RunExpressionReturn(e)
        IN  /\ libLoaded' = (libLoaded
                              \/ (e.status = "ok" /\ e.output # NullHandle))
            /\ IF dlopen_result = None
               THEN /\ Finish(SetError("Failed to dlopen libViewDebuggerSupport.dylib"))
                    /\ evals' = Answer(e)
               ELSE /\ evals' = AnswerAndSubmit(
                                   e, RunExpressionRequest("fetch_and_write", "objc"))
                    /\ pc' = "fh_write"
                    /\ UNCHANGED result
    /\ UNCHANGED <<env, nativeRan, fs, cmd, address, fsAtStart, wrote,
                   locVars, extVars>>

\* fetch_hierarchy_command, lines 49-58: the capture-and-write expression
\* returns.  It names the class DBGViewDebuggerSupport_iOS, so it can run
\* only in a target that holds the library; run, it prints YES once the
\* file is written and NO otherwise.
HierarchyWritten ==
    /\ pc = "fh_write"
    /\ \E e \in {Returned(Pending, st, <<>>) : st \in Failures(Pending)}
             \cup {Returned(Pending, "ok", o) :
                      o \in IF libLoaded THEN {Yes, No} ELSE {}} :
        LET write_result == RunExpressionReturn(e)
        IN  /\ evals' = Answer(e)
            /\ IF e.status = "ok" /\ e.output = Yes
               THEN /\ fs' = [fs EXCEPT ![OutputPath] = BplistFile]
                    /\ wrote' = TRUE
               ELSE UNCHANGED <<fs, wrote>>
            /\ IF write_result = None
               THEN Finish(SetError("Failed to call fetchViewHierarchy or write bplist"))
               ELSE Finish(AppendMessage("View hierarchy saved to {output_path}"))
    /\ UNCHANGED <<env, libLoaded, nativeRan, cmd, address, fsAtStart,
                   locVars, extVars>>

\* fetch_swiftui_tree_command, lines 80-106: the environment check returns;
\* if the flag is accepted the extraction is submitted.
SwiftUIChecked ==
    /\ pc = "st_env"
    /\ \E e \in {Returned(Pending, st, <<>>) : st \in Failures(Pending)}
             \cup {Returned(Pending, "ok", o) : o \in EnvCheckOutputs} :
        LET env_val == RunSwiftReturn(e)
        IN  IF ~FlagAccepted(env_val)
            THEN /\ Finish(SetError("SWIFTUI_VIEW_DEBUG_NOT_SET"))
                 /\ evals' = Answer(e)
            ELSE /\ evals' = AnswerAndSubmit(e, RunSwiftRequest("extract"))
                 /\ pc' = "st_extract"
                 /\ UNCHANGED result
    /\ UNCHANGED <<env, libLoaded, nativeRan, fs, cmd, address, fsAtStart,
                   wrote,
                   locVars, extVars>>

\* fetch_swiftui_tree_command, lines 106-122: the extraction returns; its
\* output is parsed as JSON and dumped to the output path.  open() can
\* raise OSError, which leaves the path alone, and so can the write, which
\* leaves a file cut short.  (Dumping what was loaded gives the text back
\* for the texts drawn here, which hold no separators.)
SwiftUIExtracted ==
    /\ pc = "st_extract"
    /\ \E e \in {Returned(Pending, st, <<>>) : st \in Failures(Pending)}
             \cup {Returned(Pending, "ok", o) : o \in ExtractOutputs} :
       \E oserror \in {"none", "open", "write"} :
        LET output == RunSwiftReturn(e)
        IN  /\ evals' = Answer(e)
            /\ IF Falsy(output)
               THEN /\ Finish(SetError("Failed to call _viewDebugData() on view at {address}"))
                    /\ UNCHANGED <<fs, wrote>>
               ELSE IF ~JsonLoads(output.text) \/ oserror = "open"
               THEN /\ Finish(SetError("Failed to write SwiftUI tree JSON: {e}"))
                    /\ UNCHANGED <<fs, wrote>>
               ELSE IF oserror = "write"
               THEN /\ Finish(SetError("Failed to write SwiftUI tree JSON: {e}"))
                    /\ fs' = [fs EXCEPT ![OutputPath] = JsonFile(<<>>)]
                    /\ UNCHANGED wrote
               ELSE /\ fs' = [fs EXCEPT ![OutputPath] = JsonFile(output.text)]
                    /\ wrote' = TRUE
                    /\ Finish(AppendMessage("SwiftUI tree saved to {output_path}"))
    /\ UNCHANGED <<env, libLoaded, nativeRan, cmd, address, fsAtStart,
                   locVars, extVars>>

\* The values of SWIFTUI_VIEW_DEBUG the model draws from.
EnvValues ==
    {[set |-> FALSE, value |-> <<>>]}
      \cup [set : {TRUE},
            value : {Marker, <<"1">>, <<"1", "2", "8", "7">>, <<>>}]

NoCommand == [name |-> "none", args |-> <<>>]

Init ==
    /\ env \in EnvValues
    /\ libLoaded \in BOOLEAN
    /\ nativeRan = FALSE
    /\ fs \in [Paths -> {Absent, Earlier}]
    /\ pc = "idle"
    /\ cmd = NoCommand
    /\ result = Clear
    /\ evals = <<>>
    /\ address = None
    /\ fsAtStart = fs
    /\ wrote = FALSE
    /\ LocateIdle /\ ExtractIdle

Next ==
    \/ Invoke
    \/ FrontmostLocated
    \/ FrontmostWritten
    \/ HierarchyLoaded
    \/ HierarchyWritten
    \/ SwiftUIChecked
    \/ SwiftUIExtracted

Spec == Init /\ [][Next]_vars

(***************************************************************************)
(* Claims about the locator (SpecLocate)                                   *)
(***************************************************************************)
\* The edges of the containment graph that leave v: its presented child,
\* its top child if it is a navigation controller, its selected child if it
\* is a tab bar controller, its visible children.
Edges(v) ==
    ({g[v].presented}
       \cup (IF g[v].kind = "nav" THEN {g[v].top} ELSE {})
       \cup (IF g[v].kind = "tab" THEN {g[v].selected} ELSE {})
       \cup {g[v].children[i] : i \in {j \in DOMAIN g[v].children :
                                          g[g[v].children[j]].visible}})
    \ {Nil}

Acyclic == \A v \in Nodes : v \notin Edges(v)

\* The longest path that leaves v.
RECURSIVE Depth(_)
Depth(v) ==
    IF v = Nil \/ Edges(v) \ {v} = {} THEN 0
    ELSE 1 + SetMax({Depth(w) : w \in Edges(v) \ {v}})

HasVisibleChild(v) ==
    \E i \in DOMAIN g[v].children : g[g[v].children[i]].visible

TopUsable(v) == g[v].kind = "nav" /\ g[v].top # Nil /\ g[v].top # v
SelectedUsable(v) ==
    g[v].kind = "tab" /\ g[v].selected # Nil /\ g[v].selected # v

\* A run has ended and its loop's locals are still in place.
RunEnded == lpc = "idle" /\ Len(addrs) > 0

\* The loop makes progress: outside its first test, either it is about to
\* exit or its last iteration moved along an edge of the graph, and the
\* moves never outnumber the depth of the graph under the root.
Progress ==
    lpc = "loop" =>
        /\ descents <= Depth(root)
        /\ \/ vc = prev
           \/ prev = Nil /\ descents = 0
           \/ vc \in Edges(prev) \ {prev}

NoRuleDescends(v) ==
    /\ g[v].presented = Nil
    /\ g[v].kind = "nav" => ~TopUsable(v)
    /\ g[v].kind = "tab" => ~SelectedUsable(v)
    /\ g[v].kind = "plain" => ~HasVisibleChild(v)

Iterated == lpc = "loop" /\ prev # Nil

C5_Idempotent == Len(addrs) = 2 => addrs[1] = addrs[2]

(***************************************************************************)
(* Claims about extractNode (SpecExtract)                                  *)
(***************************************************************************)
\* The text each value of the model is expected to show as.
Shown(x) ==
    CASE x = IntV(1) -> "1"
      [] x = IntV(12) -> "12"
      [] x = BoolV(TRUE) -> "true"
      [] x = BoolV(FALSE) -> "false"
      [] IsStr(x) -> x.str

\* The example of the claim: {a: 1, b: "x"} with one child {c: true}.
ExampleNode ==
    [data |-> [k \in {StrV("a"), StrV("b")} |->
                  IF k = StrV("a") THEN IntV(1) ELSE StrV("x")],
     childData |-> <<[data |-> [k \in {StrV("c")} |-> BoolV(TRUE)],
                     childData |-> <<>>]>>]

\* {"a": "1", "b": "x", "children": [{"c": "true"}]}
ExampleAsStated ==
    [x \in {"a", "b", "children"} |->
        CASE x = "a" -> [s |-> "1"]
          [] x = "b" -> [s |-> "x"]
          [] x = "children" -> [list |-> <<[y \in {"c"} |-> [s |-> "true"]]>>]]

\* {"a": "1", "b": "x", "children": [{"c": "true", "children": []}]}
ExampleAsBuilt ==
    [x \in {"a", "b", "children"} |->
        CASE x = "a" -> [s |-> "1"]
          [] x = "b" -> [s |-> "x"]
          [] x = "children" ->
                [list |-> <<[y \in {"c", "children"} |->
                               IF y = "c" THEN [s |-> "true"]
                               ELSE [list |-> <<>>]]>>]]

\* o is n flattened, a childless node carrying its properties alone.
RECURSIVE FlatAsStated(_, _)
FlatAsStated(n, o) ==
    /\ DOMAIN o = {Shown(k) : k \in DOMAIN n.data}
                     \cup (IF n.childData = <<>> THEN {} ELSE {"children"})
    /\ \A k \in DOMAIN n.data : o[Shown(k)] = [s |-> Shown(n.data[k])]
    /\ n.childData # <<>> =>
          /\ DOMAIN o["children"] = {"list"}
          /\ Len(o["children"].list) = Len(n.childData)
          /\ \A i \in DOMAIN n.childData :
                FlatAsStated(n.childData[i], o["children"].list[i])

\* o is n flattened, every node carrying "children".
RECURSIVE FlatAsBuilt(_, _)
FlatAsBuilt(n, o) ==
    /\ DOMAIN o = {Shown(k) : k \in DOMAIN n.data} \cup {"children"}
    /\ \A k \in DOMAIN n.data : o[Shown(k)] = [s |-> Shown(n.data[k])]
    /\ DOMAIN o["children"] = {"list"}
    /\ Len(o["children"].list) = Len(n.childData)
    /\ \A i \in DOMAIN n.childData :
          FlatAsBuilt(n.childData[i], o["children"].list[i])

\* C4 as stated: one output node per input node, of the same shape, with
\* the properties as text and the children in order under "children"; a
\* childless node carries its properties only, so that the example yields
\* {"a": "1", "b": "x", "children": [{"c": "true"}]}.
C4_Original ==
    extracted.done =>
        /\ Len(extracted.array) = Len(raw)
        /\ \A i \in DOMAIN raw : FlatAsStated(raw[i], extracted.array[i])
        /\ raw = <<ExampleNode>> => extracted.array = <<ExampleAsStated>>

\* C4, amended: as stated, except that every output node, a childless one
\* too, carries "children" (an empty list when the node has no children);
\* the example yields
\* {"a": "1", "b": "x", "children": [{"c": "true", "children": []}]}.
C4_Flattening ==
    extracted.done =>
        /\ Len(extracted.array) = Len(raw)
        /\ \A i \in DOMAIN raw : FlatAsBuilt(raw[i], extracted.array[i])
        /\ raw = <<ExampleNode>> => extracted.array = <<ExampleAsBuilt>>

\* The example has been extracted.
C4_Witness == extracted.done /\ raw = <<ExampleNode>>

(***************************************************************************)
(* Claims about the session (Spec)                                         *)
(***************************************************************************)
Submitted(expr) == \E i \in DOMAIN evals : evals[i].expr = expr

\* The command's first evaluation has returned.
FirstReturned == Len(evals) >= 1 /\ evals[1].status # "pending"

PreconditionError == "SWIFTUI_VIEW_DEBUG_NOT_SET"

\* C2: when the variable is absent from the target's environment, or the
\* flag check itself fails, fetch_swiftui_tree ends with the precondition
\* error, submits no extraction and leaves the files as they were.
C2_Gating ==
    (/\ cmd.name = "fetch_swiftui_tree"
     /\ FirstReturned
     /\ (~env.set \/ evals[1].status # "ok")) =>
        /\ pc = "idle"
        /\ result = SetError(PreconditionError)
        /\ ~Submitted("extract")
        /\ Len(evals) = 1
        /\ fs = fsAtStart
        /\ ~wrote

\* The flag check ran in a target without the variable, and the command
\* has ended.
C2_Witness ==
    /\ cmd.name = "fetch_swiftui_tree" /\ pc = "idle" /\ ~env.set
    /\ Len(evals) = 1 /\ evals[1].status = "ok"
    /\ evals[1].output \in {NotSetText, Quoted(NotSetText)}
    /\ result.error = PreconditionError

\* C10: the extraction is submitted only when the variable is set to 287;
\* with any other value the command ends with the precondition error.
C10_ExactMarker ==
    cmd.name = "fetch_swiftui_tree" =>
        /\ Submitted("extract") => (env.set /\ env.value = Marker)
        /\ (FirstReturned /\ env.set /\ env.value # Marker) =>
              (pc = "idle" /\ result = SetError(PreconditionError))

\* The load failed: the evaluation did, or dlopen returned a null handle.
LoadFailed ==
    /\ FirstReturned
    /\ evals[1].expr = "dlopen"
    /\ (evals[1].status # "ok" \/ evals[1].output = NullHandle)

\* C3: when the load fails, fetch_hierarchy ends with an error, never
\* submits the capture-and-write evaluation and leaves the files as they
\* were.
C3_LoadIsolation ==
    (cmd.name = "fetch_hierarchy" /\ LoadFailed) =>
        /\ pc = "idle"
        /\ result.error # ""
        /\ result.message = ""
        /\ ~Submitted("fetch_and_write")
        /\ fs = fsAtStart

\* The artifact a command leaves at its output path.
IsArtifact(f) ==
    CASE cmd.name = "fetch_frontmost_view" -> f = AddressFile(address.text)
      [] cmd.name = "fetch_hierarchy" -> f = BplistFile
      [] cmd.name = "fetch_swiftui_tree" ->
            DOMAIN f = {"json"} /\ JsonLoads(f.json)
      [] OTHER -> FALSE

\* The command's write step ran and did not store the artifact.
WriteFailed ==
    /\ pc = "idle"
    /\ \E i \in DOMAIN evals :
          /\ evals[i].expr \in {"write_address", "fetch_and_write"}
          /\ ~(evals[i].status = "ok" /\ evals[i].output = Yes)

\* C6: the success message is there only if the artifact was stored at the
\* path it names, and a failed write ends the command with the error set
\* and no message.
C6_NothingSwallowed ==
    /\ (pc = "idle" /\ result.message # "") =>
          (wrote /\ IsArtifact(fs[OutputPath]))
    /\ WriteFailed => (result.error # "" /\ result.message = "")

\* C7: every Swift evaluation goes through EvaluateExpression with
\* breakpoints ignored, fetch_swiftui_tree submits Swift evaluations only,
\* and no Swift evaluation stops on EXC_BREAKPOINT, whatever ran before it
\* in the session.
C7_DialectSafety ==
    /\ \A i \in DOMAIN evals :
          evals[i].language = "swift" =>
              /\ evals[i].ignoreBreakpoints
              /\ evals[i].via = "EvaluateExpression"
              /\ evals[i].status # "exc_breakpoint"
    /\ cmd.name = "fetch_swiftui_tree" =>
          \A i \in DOMAIN evals : evals[i].language = "swift"

\* fetch_swiftui_tree ran both its evaluations to the end after an
\* Objective-C expression had run in the session.
C7_Witness ==
    /\ nativeRan /\ cmd.name = "fetch_swiftui_tree" /\ pc = "idle"
    /\ Len(evals) = 2 /\ evals[2].status = "ok" /\ result.message # ""

\* The errors the handlers report when an evaluation gives them nothing.
FailureErrors ==
    {"Failed to find frontmost view controller's view",
     "Failed to dlopen libViewDebuggerSupport.dylib",
     "Failed to call fetchViewHierarchy or write bplist",
     PreconditionError,
     "Failed to call _viewDebugData() on view at {address}"}

====
